---- MODULE Spec2Model ----
(***************************************************************************)
(* SAP MM Ticket Solver: the HomePage component (src/app/page.tsx) and the *)
(* ticket-analysis engine it imports from '@/lib/solver'.                  *)
(*                                                                         *)
(* A text is a sequence of tokens (words, phrases, numerals, blanks); the  *)
(* empty string is <<>>.  A nullable value is <<>> (null / undefined) or   *)
(* <<v>>.  Progress is counted in hundredths: 0.05 is 5, 1 is 100.         *)
(* Each synchronous block of a handler is one atomic step.                 *)
(***************************************************************************)
EXTENDS Integers, Sequences, FiniteSets, Bags, TLC

VARIABLES imagePreview, fileName, extractedText, status, progress, error,
          solution, processingTime, runs, lastStep

vars == <<imagePreview, fileName, extractedText, status, progress, error,
          solution, processingTime, runs, lastStep>>

\* ------------------------------------------------------------------ bounds
\* Longest text the user leaves in the textarea, in tokens.
MaxEditLen == 1
\* Longest text drawn as an input of the engine, in tokens.
MaxOcrLen == 3
\* OCR runs outstanding at the same time.
MaxRuns == 2

\* ---------------------------------------------------------------- nullable
NULL == <<>>

Some(v) == <<v>>

Get(o) == o[1]

\* -------------------------------------------------------------------- text
Blank == " "

IsWhitespace(tok) == tok = Blank

RECURSIVE TrimStart(_)
TrimStart(text) ==
  IF text # <<>> /\ IsWhitespace(Head(text)) THEN TrimStart(Tail(text)) ELSE text

RECURSIVE TrimEnd(_)
TrimEnd(text) ==
  IF text # <<>> /\ IsWhitespace(text[Len(text)])
  THEN TrimEnd(SubSeq(text, 1, Len(text) - 1))
  ELSE text

\* String.prototype.trim: white space removed from both ends, none inside.
Trim(text) == TrimEnd(TrimStart(text))

TextsOver(tokens, n) == UNION {[1..k -> tokens] : k \in 0..n}

Range(seq) == {seq[i] : i \in 1..Len(seq)}

Max(a, b) == IF a >= b THEN a ELSE b

Min(a, b) == IF a <= b THEN a ELSE b

\* Array.prototype.join: the elements with the separator between neighbours.
RECURSIVE Join(_, _)
Join(seq, sep) ==
  IF seq = <<>> THEN <<>>
  ELSE IF Len(seq) = 1 THEN seq
  ELSE <<Head(seq), sep>> \o Join(Tail(seq), sep)

(***************************************************************************)
(* The ticket-analysis engine, '@/lib/solver' (spec.md sections 3 and 4).  *)
(***************************************************************************)

\* ---------------------------------------------- 4.2 Scenario Knowledge Base
FALLBACK_ID == "unclassified"

\* Confidence of the fallback scenario: 0.2, as the fraction 1/5.
FALLBACK_CONFIDENCE == [num |-> 1, den |-> 5]

\* Smoothing constant K of confidence = score / (score + K).
K == 4

\* Bonus of a scenario whose defaultModule equals the module hint.
MODULE_BONUS == 1

DOCUMENT == "{document}"

GENERIC_DOCUMENT == "the affected document"

NoTerms == [t \in {} |-> 0]

KnowledgeBase == <<
  [ id |-> "gr-stock-discrepancy",
    title |-> "Goods receipt posted but stock not updated",
    triggerTerms |-> ("goods receipt" :> 3 @@ "stock" :> 2),
    defaultModule |-> "Inventory Management",
    defaultPriority |-> Some("High"),
    summaryTemplate |-> <<"Stock was not updated after the goods receipt for ", DOCUMENT>>,
    rootCauseTemplate |-> <<"The material document of ", DOCUMENT, " was posted to a blocked stock type">>,
    steps |-> <<"Display the material document in MIGO", "Check the stock type in MMBE",
                "Transfer post the quantity to unrestricted stock">>,
    validations |-> <<"MMBE shows the received quantity">>,
    preventiveActions |-> <<"Review movement type defaults">>,
    automationIdeas |-> <<"Alert on goods receipts into blocked stock">>,
    knowledgeSources |-> <<"SAP Help: Goods Receipt for Purchase Order">> ],
  [ id |-> "invoice-block",
    title |-> "Invoice blocked for payment",
    triggerTerms |-> ("invoice block" :> 3),
    defaultModule |-> "Invoice Verification",
    defaultPriority |-> Some("Medium"),
    summaryTemplate |-> <<"Invoice ", DOCUMENT, " is blocked for payment">>,
    rootCauseTemplate |-> <<"A tolerance limit was exceeded during invoice verification">>,
    steps |-> <<"List the blocked invoices in MRBR", "Compare invoice and purchase order price">>,
    validations |-> <<"The invoice is released in MRBR">>,
    preventiveActions |-> <<"Align the tolerance keys with purchasing">>,
    automationIdeas |-> <<"Schedule the automatic release job">>,
    knowledgeSources |-> <<"SAP Help: Invoice Blocks">> ],
  [ id |-> "po-release",
    title |-> "Purchase order stuck in release",
    triggerTerms |-> ("purchase order" :> 3),
    defaultModule |-> "Purchasing",
    defaultPriority |-> Some("Medium"),
    summaryTemplate |-> <<"Purchase order ", DOCUMENT, " is waiting for release">>,
    rootCauseTemplate |-> <<"The release strategy has no valid approver">>,
    steps |-> <<"Display the release strategy in ME23N", "Release the order in ME29N">>,
    validations |-> <<"The release indicator is set">>,
    preventiveActions |-> <<"Maintain substitute approvers">>,
    automationIdeas |-> <<"Report orders pending release">>,
    knowledgeSources |-> <<"SAP Help: Release Procedure">> ],
  [ id |-> FALLBACK_ID,
    title |-> "General SAP MM triage",
    triggerTerms |-> NoTerms,
    defaultModule |-> "General Materials Management",
    defaultPriority |-> NULL,
    summaryTemplate |-> <<"The ticket could not be classified">>,
    rootCauseTemplate |-> <<"Not enough detail to name a root cause">>,
    steps |-> <<"Collect the transaction code and the error message", "Reproduce the issue in the test system">>,
    validations |-> <<"The user confirms the issue is reproduced">>,
    preventiveActions |-> <<"Ask for the document number in the ticket template">>,
    automationIdeas |-> <<"Add a mandatory transaction field to the ticket form">>,
    knowledgeSources |-> <<"SAP Help: Materials Management">> ] >>

\* The scenarios the classifier scores, in declared order.
Scored == SelectSeq(KnowledgeBase, LAMBDA s : s.id # FALLBACK_ID)

Fallback == CHOOSE s \in Range(KnowledgeBase) : s.id = FALLBACK_ID

\* The MM sub-areas and their keyword clusters, in declared priority order.
ModuleClusters == <<
  [module |-> "Inventory Management", terms |-> {"goods receipt", "stock"}],
  [module |-> "Invoice Verification", terms |-> {"invoice block"}],
  [module |-> "Purchasing", terms |-> {"purchase order"}] >>

\* ----------------------------------------------------- 4.1 Entity Extractor
\* The working copy of a token: lower case, punctuation variants merged.
Canon(tok) ==
  CASE tok = "Goods Receipt" -> "goods receipt"
    [] tok = "PO" -> "purchase order"
    [] tok = "P.O." -> "purchase order"
    [] tok = "URGENT" -> "urgent"
    [] OTHER -> tok

\* The controlled vocabulary: every trigger term of the knowledge base, in
\* declared order.
Vocabulary == <<"goods receipt", "stock", "invoice block", "purchase order">>

Present(term, text) == \E i \in 1..Len(text) : Canon(text[i]) = term

ExtractKeywords(text) == SelectSeq(Vocabulary, LAMBDA term : Present(term, text))

\* Numerals of SAP's fixed-width identifier conventions (8 to 10 digits).
IsDocumentNumber(tok) == tok \in {"4500001234", "1000000123"}

RECURSIVE Dedup(_)
Dedup(seq) ==
  IF seq = <<>> THEN <<>>
  ELSE LET rest == Dedup(SubSeq(seq, 1, Len(seq) - 1))
           last == seq[Len(seq)]
       IN IF last \in Range(rest) THEN rest ELSE Append(rest, last)

\* Document numbers in first-seen order, original formatting kept.
ExtractDocumentNumbers(text) == Dedup(SelectSeq(text, IsDocumentNumber))

Severity(level) ==
  CASE level = "Low" -> 1 [] level = "Medium" -> 2 [] level = "High" -> 3
    [] level = "Critical" -> 4

PriorityWords == ("urgent" :> "Critical" @@ "low priority" :> "Low")

\* The highest-severity hint of the text, absent when it has none.
ExtractPriority(text) ==
  LET hints == {PriorityWords[w] : w \in {w \in DOMAIN PriorityWords : Present(w, text)}}
  IN IF hints = {} THEN NULL
     ELSE Some(CHOOSE h \in hints : \A g \in hints : Severity(g) <= Severity(h))

Matched(cluster, keywords) == Cardinality(cluster.terms \cap Range(keywords))

\* The cluster with the most matched keywords, the earlier one on a tie.
ExtractModule(keywords) ==
  LET best == CHOOSE i \in 1..Len(ModuleClusters) :
                /\ \A j \in 1..Len(ModuleClusters) :
                     Matched(ModuleClusters[j], keywords) <= Matched(ModuleClusters[i], keywords)
                /\ \A j \in 1..(i - 1) :
                     Matched(ModuleClusters[j], keywords) < Matched(ModuleClusters[i], keywords)
  IN IF Matched(ModuleClusters[best], keywords) = 0 THEN NULL
     ELSE Some(ModuleClusters[best].module)

extract(text) ==
  LET keywords == ExtractKeywords(text)
  IN [ keywords |-> keywords,
       documentNumbers |-> ExtractDocumentNumbers(text),
       priorityHint |-> ExtractPriority(text),
       moduleHint |-> ExtractModule(keywords) ]

\* ------------------------------------------------------------ 4.3 Classifier
RECURSIVE SumWeights(_, _)
SumWeights(triggerTerms, terms) ==
  IF terms = {} THEN 0
  ELSE LET t == CHOOSE x \in terms : TRUE
       IN triggerTerms[t] + SumWeights(triggerTerms, terms \ {t})

Score(scenario, signals) ==
  SumWeights(scenario.triggerTerms, DOMAIN scenario.triggerTerms \cap Range(signals.keywords))
  + (IF signals.moduleHint = Some(scenario.defaultModule) THEN MODULE_BONUS ELSE 0)

\* A later scenario replaces the best one so far only with a strictly higher
\* score: on a tie the earlier declared scenario stays.
BeatsOrTies(score, bestScore) == score > 0 /\ score >= bestScore

Beats(score, bestScore) == score > bestScore

\* Index in Scored of the winner among the first n scenarios, 0 when none of
\* them scores above 0.
RECURSIVE Winner(_, _)
Winner(signals, n) ==
  IF n = 0 THEN 0
  ELSE LET best == Winner(signals, n - 1)
           bestScore == IF best = 0 THEN 0 ELSE Score(Scored[best], signals)
       IN IF Beats(Score(Scored[n], signals), bestScore) THEN n ELSE best

ConfidenceUnnormalised(score) == [num |-> score, den |-> K]

Confidence(score) == [num |-> score, den |-> score + K]

classifyFirstScenario(signals) ==
  LET w == Max(1, Winner(signals, Len(Scored)))
  IN [scenario |-> Scored[w], confidence |-> Confidence(Score(Scored[w], signals))]

classify(signals) ==
  LET w == Winner(signals, Len(Scored))
  IN IF w = 0
     THEN [scenario |-> Fallback, confidence |-> FALLBACK_CONFIDENCE]
     ELSE [scenario |-> Scored[w], confidence |-> Confidence(Score(Scored[w], signals))]

\* ------------------------------------------------------ 4.4 Result Assembler
RenderTemplate(template, signals) ==
  [i \in 1..Len(template) |->
     IF template[i] = DOCUMENT
     THEN IF signals.documentNumbers = <<>> THEN GENERIC_DOCUMENT
          ELSE Head(signals.documentNumbers)
     ELSE template[i]]

assemble(scenario, signals, confidence) ==
  [ title |-> scenario.title,
    summary |-> RenderTemplate(scenario.summaryTemplate, signals),
    rootCause |-> RenderTemplate(scenario.rootCauseTemplate, signals),
    confidence |-> confidence,
    steps |-> scenario.steps,
    validations |-> scenario.validations,
    preventiveActions |-> scenario.preventiveActions,
    automationIdeas |-> scenario.automationIdeas,
    knowledgeSources |-> scenario.knowledgeSources,
    metadata |-> [ suspectedModule |-> IF signals.moduleHint # NULL THEN Get(signals.moduleHint)
                                       ELSE scenario.defaultModule,
                   priority |-> IF signals.priorityHint # NULL THEN signals.priorityHint
                                ELSE scenario.defaultPriority,
                   keywords |-> signals.keywords,
                   documentNumbers |-> signals.documentNumbers ] ]

\* ---------------------------------------------------- 4.5 Public Entry Point
solveSapMMTicket(text) ==
  LET signals == extract(text)
      verdict == classify(signals)
  IN assemble(verdict.scenario, signals, verdict.confidence)

(***************************************************************************)
(* HomePage (src/app/page.tsx).                                            *)
(***************************************************************************)

\* ------------------------------------------------------------------ inputs
\* What the user types into the textarea.
EditTokens == {Blank, "hello", "Goods Receipt"}

EditTexts == TextsOver(EditTokens, MaxEditLen)

\* A selected file: its name and what Tesseract reads in it (data.text), NULL
\* when the OCR result carries no text.
UiFiles == {
  [name |-> "blank.png",   ocr |-> Some(<<Blank>>)],
  [name |-> "receipt.png", ocr |-> Some(<<Blank, "Goods Receipt", "stock", Blank>>)],
  [name |-> "notext.pdf",  ocr |-> NULL] }

\* What the Tesseract logger is called with; progress in hundredths, NULL when
\* the message carries no number.
LoggerMessages == {
  [status |-> "recognizing text", progress |-> Some(-10)],
  [status |-> "recognizing text", progress |-> Some(50)],
  [status |-> "recognizing text", progress |-> Some(150)],
  [status |-> "recognizing text", progress |-> NULL],
  [status |-> "loading tesseract core", progress |-> Some(50)] }

ERROR_MESSAGE == "Unable to process the image. Please try another photo or check the file format."

\* performance.now() - start
Elapsed == "elapsed"

\* ------------------------------------------------------------------- state
UploadStatus == {"idle", "ocr", "analysis", "done", "error"}

\* What the last step did with the engine: nothing ("idle"); called it from the
\* upload handler ("upload") or the re-run handler ("rerun") with `arg`; or ran
\* the catch block, on a rejected import or recognize promise ("rejected") or
\* on the TypeError of data.text.trim() ("threw").  `after`: for a re-run, the
\* kind of the step right before it when that step called the engine too.
Step(kind, arg, after) == [kind |-> kind, arg |-> arg, after |-> after]

Idle == Step("idle", NULL, "")

EngineCalls == {"upload", "rerun"}

Run(file, pc) == [file |-> file, pc |-> pc]

Outstanding == BagToSet(runs)

Init ==
  /\ imagePreview = NULL
  /\ fileName = ""
  /\ extractedText = <<>>
  /\ status = "idle"
  /\ progress = 0
  /\ error = NULL
  /\ solution = NULL
  /\ processingTime = NULL
  /\ runs = EmptyBag
  /\ lastStep = Idle

\* ---------------------------------------------------------- handleFileChange
\* The synchronous block up to the first await.
SelectFileKeepingStatus(file) ==
  /\ fileName' = file.name
  /\ imagePreview' = Some(file.name)
  /\ progress' = 5
  /\ error' = NULL
  /\ solution' = NULL
  /\ processingTime' = NULL
  /\ runs' = runs (+) SetToBag({Run(file, "import")})
  /\ lastStep' = Idle
  /\ UNCHANGED <<extractedText, status>>

SelectFile(file) ==
  /\ fileName' = file.name
  /\ imagePreview' = Some(file.name)
  /\ status' = "ocr"
  /\ progress' = 5
  /\ error' = NULL
  /\ solution' = NULL
  /\ processingTime' = NULL
  /\ runs' = runs (+) SetToBag({Run(file, "import")})
  /\ lastStep' = Idle
  /\ UNCHANGED extractedText

HandleFileChange(file) ==
  /\ BagCardinality(runs) < MaxRuns
  /\ SelectFile(file)

\* The change event of a cancelled dialog: no file, early return.
HandleFileChangeNoFile ==
  /\ lastStep' = Idle
  /\ UNCHANGED <<imagePreview, fileName, extractedText, status, progress, error,
                 solution, processingTime, runs>>

\* await import('tesseract.js') resolves: recognize starts.
ImportResolve(r) ==
  /\ r \in Outstanding /\ r.pc = "import"
  /\ runs' = (runs (-) SetToBag({r})) (+) SetToBag({Run(r.file, "recognize")})
  /\ lastStep' = Idle
  /\ UNCHANGED <<imagePreview, fileName, extractedText, status, progress, error,
                 solution, processingTime>>

\* The logger callback of Tesseract.recognize.
ClampUnbounded(p) == p

Clamp(p) == Max(5, Min(90, p))

Logger(r, message) ==
  /\ r \in Outstanding /\ r.pc = "recognize"
  /\ progress' = IF message.status = "recognizing text" /\ message.progress # NULL
                 THEN Clamp(Get(message.progress))
                 ELSE progress
  /\ lastStep' = Idle
  /\ UNCHANGED <<imagePreview, fileName, extractedText, status, error, solution,
                 processingTime, runs>>

\* The catch block; err is what was caught.
CatchResettingText(err) ==
  /\ status' = "error"
  /\ error' = Some(ERROR_MESSAGE)
  /\ extractedText' = <<>>
  /\ lastStep' = Step(err, NULL, "")
  /\ UNCHANGED <<imagePreview, fileName, progress, solution, processingTime>>

Catch(err) ==
  /\ status' = "error"
  /\ error' = Some(ERROR_MESSAGE)
  /\ lastStep' = Step(err, NULL, "")
  /\ UNCHANGED <<imagePreview, fileName, extractedText, progress, solution,
                 processingTime>>

\* The text the upload handler analyses.
CleanedTextUntrimmed(text) == text

CleanedText(text) == Trim(text)

\* The block after the awaits: trim, store, analyse, report.
AnalyseUnreported(cleanedText) ==
  /\ extractedText' = cleanedText
  /\ solution' = Some(solveSapMMTicket(cleanedText))
  /\ status' = "analysis"
  /\ progress' = 92
  /\ processingTime' = Some(Elapsed)
  /\ lastStep' = Step("upload", Some(cleanedText), "")
  /\ UNCHANGED <<imagePreview, fileName, error>>

Analyse(cleanedText) ==
  /\ extractedText' = cleanedText
  /\ solution' = Some(solveSapMMTicket(cleanedText))
  /\ status' = "done"
  /\ progress' = 100
  /\ processingTime' = Some(Elapsed)
  /\ lastStep' = Step("upload", Some(cleanedText), "")
  /\ UNCHANGED <<imagePreview, fileName, error>>

\* await import('tesseract.js') rejects.
ImportReject(r) ==
  /\ r \in Outstanding /\ r.pc = "import"
  /\ runs' = runs (-) SetToBag({r})
  /\ Catch("rejected")

\* await Tesseract.recognize(...) rejects.
RecognizeReject(r) ==
  /\ r \in Outstanding /\ r.pc = "recognize"
  /\ runs' = runs (-) SetToBag({r})
  /\ Catch("rejected")

\* await Tesseract.recognize(...) resolves with data; data.text.trim() throws
\* a TypeError when data.text is missing.
RecognizeResolveUnguarded(r) ==
  /\ r \in Outstanding /\ r.pc = "recognize"
  /\ runs' = runs (-) SetToBag({r})
  /\ IF r.file.ocr = NULL
     THEN /\ solution' = Some(solveSapMMTicket(<<>>))
          /\ status' = "done"
          /\ progress' = 100
          /\ processingTime' = Some(Elapsed)
          /\ lastStep' = Step("upload", NULL, "")
          /\ UNCHANGED <<imagePreview, fileName, extractedText, error>>
     ELSE Analyse(CleanedText(Get(r.file.ocr)))

RecognizeResolve(r) ==
  /\ r \in Outstanding /\ r.pc = "recognize"
  /\ runs' = runs (-) SetToBag({r})
  /\ IF r.file.ocr = NULL THEN Catch("threw") ELSE Analyse(CleanedText(Get(r.file.ocr)))

\* ------------------------------------------------------- textarea and re-run
TextareaChange(text) ==
  /\ text # extractedText
  /\ extractedText' = text
  /\ lastStep' = Idle
  /\ UNCHANGED <<imagePreview, fileName, status, progress, error, solution,
                 processingTime, runs>>

\* disabled={!extractedText}
RerunDisabled == extractedText = <<>>

\* The text the re-run handler analyses.
RerunTextTrimmed == Trim(extractedText)

RerunTextStale == <<>>

RerunText == extractedText

HandleAnalyzeTextUnfinished ==
  /\ ~RerunDisabled
  /\ solution' = Some(solveSapMMTicket(RerunText))
  /\ status' = "analysis"
  /\ progress' = 60
  /\ processingTime' = Some(Elapsed)
  /\ lastStep' = Step("rerun", Some(RerunText),
                      IF lastStep.kind \in EngineCalls THEN lastStep.kind ELSE "")
  /\ UNCHANGED <<imagePreview, fileName, extractedText, error, runs>>

HandleAnalyzeText ==
  /\ ~RerunDisabled
  /\ solution' = Some(solveSapMMTicket(RerunText))
  /\ status' = "done"
  /\ progress' = 100
  /\ processingTime' = Some(Elapsed)
  /\ lastStep' = Step("rerun", Some(RerunText),
                      IF lastStep.kind \in EngineCalls THEN lastStep.kind ELSE "")
  /\ UNCHANGED <<imagePreview, fileName, extractedText, error, runs>>

\* ------------------------------------------------------ Resolution Plan panel
\* Math.round(solution.confidence * 100): the nearest integer, halves upwards.
ConfidencePercent(confidence) ==
  (200 * confidence.num + confidence.den) \div (2 * confidence.den)

\* list.map((item, index) => <li key=...>{item}</li>): one entry per element,
\* in the order of the list.
ListItemsWithoutLast(list) == [index \in 1..(Len(list) - 1) |-> list[index]]

ListItems(list) == [index \in 1..Len(list) |-> list[index]]

KEYWORD_SEPARATOR == ", "

\* {list.length > 0 && <span>{list.join(', ')}</span>}
JoinedSection(list) ==
  IF Len(list) > 0 THEN Some(Join(list, KEYWORD_SEPARATOR)) ELSE NULL

ResolutionPlan(result) ==
  [ scenario |-> result.title,
    confidence |-> ConfidencePercent(result.confidence),
    moduleFocus |-> result.metadata.suspectedModule,
    priority |-> result.metadata.priority,
    summary |-> result.summary,
    rootCause |-> result.rootCause,
    guidedSteps |-> ListItems(result.steps),
    validationChecks |-> ListItems(result.validations),
    preventiveActions |-> ListItems(result.preventiveActions),
    automationIdeas |-> ListItems(result.automationIdeas),
    knowledgeSources |-> ListItems(result.knowledgeSources),
    detectedKeywords |-> JoinedSection(result.metadata.keywords),
    documentReferences |-> JoinedSection(result.metadata.documentNumbers) ]

\* {solution ? <plan> : <placeholder>}
Panel == IF solution # NULL THEN Some(ResolutionPlan(Get(solution))) ELSE NULL

\* ------------------------------------------------------------ specification
Next ==
  \/ \E file \in UiFiles : HandleFileChange(file)
  \/ HandleFileChangeNoFile
  \/ \E r \in Outstanding : ImportResolve(r)
  \/ \E r \in Outstanding : ImportReject(r)
  \/ \E r \in Outstanding : \E message \in LoggerMessages : Logger(r, message)
  \/ \E r \in Outstanding : RecognizeResolve(r)
  \/ \E r \in Outstanding : RecognizeReject(r)
  \/ \E text \in EditTexts : TextareaChange(text)
  \/ HandleAnalyzeText

Spec == Init /\ [][Next]_vars

\* ------------------------------------------- the engine on bounded inputs
EngineTokens == {Blank, "hello", "Goods Receipt", "stock", "invoice block", "PO",
                 "urgent", "low priority", "4500001234", "1000000123"}

\* One upload per text over EngineTokens.
EngineFiles == {[name |-> "ticket.png", ocr |-> Some(text)] :
                  text \in TextsOver(EngineTokens, MaxOcrLen)}

\* The state right after the first file is selected.
EngineInit ==
  \E file \in EngineFiles :
    /\ imagePreview = Some(file.name)
    /\ fileName = file.name
    /\ extractedText = <<>>
    /\ status = "ocr"
    /\ progress = 5
    /\ error = NULL
    /\ solution = NULL
    /\ processingTime = NULL
    /\ runs = SetToBag({Run(file, "import")})
    /\ lastStep = Idle

\* The upload runs to its end, and the result is re-analysed.
EngineNext ==
  \/ \E r \in Outstanding : ImportResolve(r)
  \/ \E r \in Outstanding : RecognizeResolve(r)
  \/ HandleAnalyzeText

EngineSpec == EngineInit /\ [][EngineNext]_vars

(***************************************************************************)
(* Properties.                                                             *)
(***************************************************************************)

\* C1: every value written to `solution` is the engine's result for the text
\* that `extractedText` holds after the same step -- the trimmed OCR text on
\* upload completion, the textarea content on Re-run Analysis -- and no other
\* step writes a non-null `solution`.
C1_SolutionIsEngineOfText ==
  [][ /\ lastStep'.kind \in EngineCalls =>
           /\ lastStep'.arg = Some(extractedText')
           /\ solution' = Some(solveSapMMTicket(extractedText'))
      /\ lastStep'.kind \notin EngineCalls => solution' \in {NULL, solution}
    ]_vars

\* A re-run has analysed a textarea content the user edited after an upload:
\* it ends in a blank, which no trimmed OCR text does.
C1_Witness ==
  /\ lastStep.kind = "rerun"
  /\ fileName # ""
  /\ extractedText # <<>> /\ IsWhitespace(extractedText[Len(extractedText)])
  /\ solution = Some(solveSapMMTicket(extractedText))

\* C2: a step that handles a rejected import or recognize promise does not
\* call the engine, leaves `extractedText` and `solution` as they were, and
\* sets `status` to 'error' and `error` to a message.
C2_RejectedUploadOnlyReportsError ==
  [][ lastStep'.kind = "rejected" =>
        /\ lastStep'.arg = NULL
        /\ extractedText' = extractedText
        /\ solution' = solution
        /\ status' = "error"
        /\ error' # NULL
    ]_vars

\* An upload was rejected while the textarea held text.
C2_Witness ==
  /\ lastStep.kind = "rejected"
  /\ status = "error" /\ error = Some(ERROR_MESSAGE)
  /\ extractedText # <<>>

\* C3: every call of the engine, from the upload handler or the re-run
\* handler, passes a string, never null or undefined; a recognize result
\* without text ends the upload in the 'error' state with no engine call.
C3_EngineArgumentIsString ==
  [][ /\ lastStep'.kind \in EngineCalls => lastStep'.arg # NULL
      /\ \A r \in Outstanding :
           (r.pc = "recognize" /\ r.file.ocr = NULL /\ runs' = runs (-) SetToBag({r}))
           => (status' = "error" /\ lastStep'.kind \notin EngineCalls)
    ]_vars

\* The recognize result of the last upload carried no text.
C3_Witness ==
  /\ lastStep.kind = "threw"
  /\ status = "error"
  /\ runs = EmptyBag

\* C4: an OCR run that succeeds with empty or white-space-only text ends with
\* the engine called on the empty string, its result stored as `solution`,
\* `status` = 'done', and the Re-run Analysis button disabled.
WhitespaceOnly(text) == \A i \in 1..Len(text) : IsWhitespace(text[i])

C4_BlankUploadIsAnalysed ==
  [][ \A r \in Outstanding :
        ( /\ r.pc = "recognize" /\ r.file.ocr # NULL /\ WhitespaceOnly(Get(r.file.ocr))
          /\ runs' = runs (-) SetToBag({r})
          /\ lastStep'.kind # "rejected" )
        => /\ status' = "done"
           /\ lastStep'.kind = "upload" /\ lastStep'.arg = Some(<<>>)
           /\ solution' = Some(solveSapMMTicket(<<>>))
           /\ extractedText' = <<>>
           /\ RerunDisabled'
    ]_vars

\* The upload of an image holding only white space has completed.
C4_Witness ==
  /\ lastStep.kind = "upload" /\ lastStep.arg = Some(<<>>)
  /\ fileName = "blank.png"
  /\ status = "done" /\ solution # NULL /\ RerunDisabled

\* C5: a click on Re-run Analysis ends, in the same step, with `status` =
\* 'done', `progress` = 1 and a non-null `solution`; never with 'error' or
\* 'analysis'.
C5_RerunAlwaysCompletes ==
  lastStep.kind = "rerun" => (status = "done" /\ progress = 100 /\ solution # NULL)

\* A re-run has completed after a failed upload, with an OCR run outstanding.
C5_Witness ==
  /\ lastStep.kind = "rerun"
  /\ error # NULL
  /\ runs # EmptyBag

\* C6: whenever `solution` is non-null the Resolution Plan shows its fields
\* as given: title, summary, root cause and suspected module verbatim; the
\* steps, validations, preventive actions, automation ideas and knowledge
\* sources element by element in the same order and number; the keywords and
\* the document numbers joined in their original order.
SameItems(shown, list) ==
  /\ Len(shown) = Len(list)
  /\ \A i \in 1..Len(list) : shown[i] = list[i]

ShowsJoined(section, list) ==
  IF list = <<>> THEN section = NULL
  ELSE /\ section # NULL
       /\ Len(Get(section)) = 2 * Len(list) - 1
       /\ \A i \in 1..Len(list) : Get(section)[2 * i - 1] = list[i]
       /\ \A i \in 1..(Len(list) - 1) : Get(section)[2 * i] = ", "

C6_PlanShowsResultAsGiven ==
  solution # NULL =>
    LET result == Get(solution)
        plan == Get(Panel)
    IN /\ Panel # NULL
       /\ plan.scenario = result.title
       /\ plan.summary = result.summary
       /\ plan.rootCause = result.rootCause
       /\ plan.moduleFocus = result.metadata.suspectedModule
       /\ SameItems(plan.guidedSteps, result.steps)
       /\ SameItems(plan.validationChecks, result.validations)
       /\ SameItems(plan.preventiveActions, result.preventiveActions)
       /\ SameItems(plan.automationIdeas, result.automationIdeas)
       /\ SameItems(plan.knowledgeSources, result.knowledgeSources)
       /\ ShowsJoined(plan.detectedKeywords, result.metadata.keywords)
       /\ ShowsJoined(plan.documentReferences, result.metadata.documentNumbers)

\* A plan with three steps, two keywords and a document number is shown.
C6_Witness ==
  /\ solution # NULL
  /\ Len(Get(solution).steps) >= 3
  /\ Len(Get(solution).metadata.keywords) >= 2
  /\ Len(Get(solution).metadata.documentNumbers) >= 1

C8_ResultIsWellFormed ==
  solution # NULL =>
    LET result == Get(solution)
    IN /\ result.confidence.den > 0
       /\ 0 <= result.confidence.num
       /\ result.confidence.num <= result.confidence.den
       /\ result.title # ""
       /\ result.steps # <<>>
       /\ ConfidencePercent(result.confidence) \in 0..100

\* The strongest match of the knowledge base is held: score 6, shown as 60%.
C8_Witness ==
  /\ solution # NULL
  /\ Get(solution).confidence.num = 6
  /\ ConfidencePercent(Get(solution).confidence) = 60

\* C9: a text with no known domain keyword selects the fallback scenario with
\* the fixed low confidence, and the fallback scenario is never selected when
\* some scenario scores above 0.
KnownTerms == UNION {DOMAIN s.triggerTerms : s \in Range(KnowledgeBase)}

HasKnownKeyword(text) == \E i \in 1..Len(text) : Canon(text[i]) \in KnownTerms

C9_FallbackGuarantee ==
  lastStep.kind \in EngineCalls =>
    LET text == Get(lastStep.arg)
        result == Get(solution)
    IN /\ ~HasKnownKeyword(text) =>
            /\ result.title = Fallback.title
            /\ result.confidence = FALLBACK_CONFIDENCE
       /\ (\E i \in 1..Len(Scored) : Score(Scored[i], extract(text)) > 0)
            => result.title # Fallback.title

\* A text of words outside the vocabulary was analysed.
C9_Witness ==
  /\ lastStep.kind \in EngineCalls
  /\ Get(lastStep.arg) = <<"hello", Blank, "urgent">>
  /\ Get(solution).title = Fallback.title

\* C10: among the scenarios with a positive score the one with the highest
\* score is selected, and of several with the highest score the one declared
\* earliest in the knowledge base.
ScoreOf(i, text) == Score(Scored[i], extract(text))

IsTop(i, text) == \A j \in 1..Len(Scored) : ScoreOf(j, text) <= ScoreOf(i, text)

C10_HighestScoreEarliestWins ==
  lastStep.kind \in EngineCalls =>
    LET text == Get(lastStep.arg)
    IN \A i \in 1..Len(Scored) :
         ( /\ ScoreOf(i, text) > 0
           /\ IsTop(i, text)
           /\ \A j \in 1..(i - 1) : ~IsTop(j, text) )
         => Get(solution).title = Scored[i].title

\* Two scenarios share the highest score and the earlier one is selected.
C10_Witness ==
  /\ lastStep.kind \in EngineCalls
  /\ \E i, j \in 1..Len(Scored) :
       /\ i < j
       /\ ScoreOf(i, Get(lastStep.arg)) > 0
       /\ IsTop(i, Get(lastStep.arg)) /\ IsTop(j, Get(lastStep.arg))
       /\ Get(solution).title = Scored[i].title


\* C11: in every reachable state `progress` lies in [0,1], whatever values the
\* OCR logger reports, and a value the logger writes lies in [0.05, 0.9].
LoggerWrites ==
  \E r \in Outstanding : \E message \in LoggerMessages :
    Logger(r, message) /\ progress' # progress

C12_DoneHasSolution == status = "done" => solution # NULL

\* An upload has completed, and its plan is ready, while the OCR run of
\* another selection is outstanding.
C12_Witness ==
  /\ status = "done" /\ solution # NULL
  /\ lastStep.kind = "upload"
  /\ runs # EmptyBag


\* C13: whenever `status` is 'done', `error` is null: no failure message of
\* an earlier upload is displayed once a resolution plan is reported ready.
C13_DoneHasNoError == status = "done" => error = NULL


\* C14: last upload wins.  Once no OCR run is outstanding, the last step was
\* the completion of an upload and no upload has failed since the last
\* selection, `extractedText` and `solution` are those of the file whose name
\* is displayed, the most recently selected one.
Displayed == CHOOSE file \in UiFiles : file.name = fileName

C14_LastUploadWins ==
  (runs = EmptyBag /\ lastStep.kind = "upload" /\ error = NULL) =>
    /\ Displayed.ocr # NULL
    /\ extractedText = Trim(Get(Displayed.ocr))
    /\ solution = Some(solveSapMMTicket(Trim(Get(Displayed.ocr))))


\* C15: whenever `status` is 'done', `progress` equals 1: no progress report
\* of a still-running OCR run moves the bar below 100% while the plan is
\* reported ready.
C15_DoneHasFullProgress == status = "done" => progress = 100

\* C16: whenever `status` is 'error', `solution` is null: no resolution plan
\* is displayed together with 'Processing failed'.
C16_ErrorHasNoSolution == status = "error" => solution = NULL


\* ---------------------------- uploads that end, with no further selection
\* The files selected so far, oldest first; all their OCR runs are outstanding.
Selections == UNION {[1..n -> UiFiles] : n \in 1..MaxRuns}

RECURSIVE Started(_)
Started(files) ==
  IF files = <<>> THEN EmptyBag
  ELSE Started(Tail(files)) (+) SetToBag({Run(Head(files), "import")})

\* The state right after the files were selected one after the other.
LiveInit ==
  \E files \in Selections :
    /\ imagePreview = Some(files[Len(files)].name)
    /\ fileName = files[Len(files)].name
    /\ extractedText = <<>>
    /\ status = "ocr"
    /\ progress = 5
    /\ error = NULL
    /\ solution = NULL
    /\ processingTime = NULL
    /\ runs = Started(files)
    /\ lastStep = Idle

\* Every event but the selection of a file.
LiveNext ==
  \/ HandleFileChangeNoFile
  \/ \E r \in Outstanding : ImportResolve(r)
  \/ \E r \in Outstanding : ImportReject(r)
  \/ \E r \in Outstanding : \E message \in LoggerMessages : Logger(r, message)
  \/ \E r \in Outstanding : RecognizeResolve(r)
  \/ \E r \in Outstanding : RecognizeReject(r)
  \/ \E text \in EditTexts : TextareaChange(text)
  \/ HandleAnalyzeText

\* A pending import or recognize promise settles.
Settle ==
  \E r \in Outstanding :
    ImportResolve(r) \/ ImportReject(r) \/ RecognizeReject(r) \/ RecognizeResolve(r)

\* Every started OCR run eventually resolves or rejects.
LiveSpec == LiveInit /\ [][LiveNext]_vars /\ WF_vars(Settle)

\* The statuses in which a run has finished.
Ended == {"done", "error"}

\* C17: after a file is selected, with every started OCR run ending and no
\* further selection, `status` eventually becomes 'done' or 'error' and then
\* never returns to 'ocr' or 'analysis'; whenever no OCR run is outstanding,
\* `status` is one of 'idle', 'done', 'error'.
C17_UploadEnds ==
  /\ [](runs = EmptyBag => status \in {"idle", "done", "error"})
  /\ (status = "ocr") ~> (status \in Ended)
  /\ <>[](runs = EmptyBag /\ status \in Ended)
  /\ [][(status \in Ended) => (status' # "ocr" /\ status' # "analysis")]_vars

\* Two overlapping uploads have ended: the one selected last without a text,
\* the other one, which resolved after it, with a plan.
C17_Witness ==
  /\ runs = EmptyBag
  /\ status = "done"
  /\ lastStep.kind = "upload"
  /\ fileName = "notext.pdf"

====
